---------------------------- MODULE Spec2Model ----------------------------
(***************************************************************************)
(* Engine (render loop, context-loss handling, frame pacing) of the        *)
(* platformer, as a state machine.                                         *)
(*                                                                         *)
(* Time is counted in units of 1/TicksPerSecond seconds, so that the frame *)
(* interval 1000/targetFPS ms is the whole number TicksPerSecond/targetFPS *)
(* of units.  A delta handed to game.update is kept in the same units      *)
(* (deltaSeconds = units / TicksPerSecond).                                *)
(*                                                                         *)
(* The browser runs every handler to completion, so each handler is one    *)
(* action.  What a handler calls synchronously (game.update calling        *)
(* engine.run, run calling animate(0)) is composed inside the action; the  *)
(* operators below therefore work on a record of the engine's fields.      *)
(***************************************************************************)
EXTENDS Integers, Sequences, FiniteSets, TLC

VARIABLES
    config,           \* EngineConfig given to the constructor
    game,             \* Engine.game
    lastTime,         \* Engine.lastTime
    lastFrameTime,    \* Engine.lastFrameTime
    animationId,      \* Engine.animationId (0 stands for null)
    isContextLost,    \* Engine.isContextLost
    targetFPS,        \* Engine.targetFPS
    frameInterval,    \* Engine.frameInterval
    background,       \* scene.background is set
    fog,              \* scene.fog is set
    cameraAspect,     \* camera.aspect, kept as the pair <<width, height>>
    renderer,         \* renderer: size, pixel ratio, shadow map
    disposed,         \* input, mobileInput and renderer were disposed
    window,           \* window.innerWidth, innerHeight, devicePixelRatio
    ctxAlive,         \* live state of the WebGL context: ~gl.isContextLost()
    lostEventPending, \* the browser has queued a webglcontextlost event
    canRestore,       \* the lost event was delivered and its default prevented
    pending,          \* animation-frame callbacks requested and not yet run
    now,              \* timestamp of the latest animation frame
    handler,          \* the handler that ran last
    trace,            \* the calls the latest handler made, in order
    escaped,          \* an exception left the latest handler
    sess,             \* one record per run() call: what happened to its game
    gameSess,         \* the run() call that assigned Engine.game (0: none)
    overlap,          \* an update ran while an earlier session was not disposed exactly once
    preLoss,          \* renderer settings while the context lives, frozen when it dies
    losses,           \* number of times the context died
    tickedAt,         \* timestamp of the latest update of the latest session (-1: none)
    disposedGames,    \* the games whose dispose() the engine has invoked, where followed
    resizedAgain,     \* the latest two handlers were both the resize listener
    platforms,        \* the Platform objects constructed on this engine
    sceneMeshes,      \* the platforms whose mesh is in engine.scene
    observed,         \* what the latest getBounds() call returned (<<>>: no call yet)
    args,             \* the position and size vectors the caller passed to new Platform
    customers,        \* PlatformerGame.customers: the Customer objects
    query,            \* the latest checkInteraction / validateOrder call made from outside (<<>>: none)
    player,           \* the player's position and ingredient list
    keyE,             \* engine.input: the deliver key is held down
    pgame,            \* PlatformerGame.currentCustomer (0 stands for null) and score
    tick              \* the latest PlatformerGame.update: its number and the list it offered

vars == <<config, game, lastTime, lastFrameTime, animationId, isContextLost,
          targetFPS, frameInterval, background, fog, cameraAspect, renderer,
          disposed, window, ctxAlive, lostEventPending, canRestore, pending,
          now, handler, trace, escaped, sess, gameSess, overlap, preLoss,
          losses, tickedAt, disposedGames, resizedAgain, platforms,
          sceneMeshes, observed, args, customers, query, player, keyE, pgame,
          tick>>

-----------------------------------------------------------------------------
(* Bounds of the model *)

TicksPerSecond == 120
MaxTime == 8
MaxStep == 3
MaxRuns == 2
MaxLosses == 1
MaxDim == 2
MaxRatio == 2
MaxCenter == 1
MaxHalfSize == 10
MaxOrder == 2
MaxUpdates == 3

(* Values *)

Null == "null"
Games == {"gameA", "gameB"}
DefaultFPS == 60
MobileFPS == 30

WinSizes == {<<w, 1>> : w \in 1..MaxDim}
Ratios == 1..MaxRatio
Caps == {0, 1}

Min(a, b) == IF a <= b THEN a ELSE b

\* JavaScript's % on numbers: the result takes the sign of the dividend.
JsMod(a, b) == IF a >= 0 THEN a % b ELSE 0 - ((0 - a) % b)

-----------------------------------------------------------------------------
(* EngineConfig: maxPixelRatio and enableShadows are optional fields. *)

Has(cfg, f) == f \in DOMAIN cfg

Configs ==
    {[canvas |-> "canvas"]}
    \cup {[canvas |-> "canvas", maxPixelRatio |-> c] : c \in Caps}
    \cup {[canvas |-> "canvas", enableShadows |-> b] : b \in BOOLEAN}
    \cup {[canvas |-> "canvas", maxPixelRatio |-> c, enableShadows |-> b] :
             c \in Caps, b \in BOOLEAN}

\* A device test by truthiness: a cap of 0 would count as no cap.
IsMobileWhenTruthy(cfg) == Has(cfg, "maxPixelRatio") /\ cfg.maxPixelRatio # 0

\* const isMobile = config.maxPixelRatio !== undefined
IsMobile(cfg) == Has(cfg, "maxPixelRatio")

\* config.maxPixelRatio used as a condition: undefined and 0 are falsy
CapTruthy(cfg) == Has(cfg, "maxPixelRatio") /\ cfg.maxPixelRatio # 0

\* config.maxPixelRatio ? Math.min(devicePixelRatio, maxPixelRatio) : devicePixelRatio
PixelRatioFor(cfg, dpr) ==
    IF CapTruthy(cfg) THEN Min(dpr, cfg.maxPixelRatio) ELSE dpr

\* config.enableShadows ?? true
ShadowsWanted(cfg) == IF Has(cfg, "enableShadows") THEN cfg.enableShadows ELSE TRUE

\* config.maxPixelRatio ? THREE.BasicShadowMap : THREE.PCFSoftShadowMap
ShadowTypeFor(cfg) == IF CapTruthy(cfg) THEN "BasicShadowMap" ELSE "PCFSoftShadowMap"

\* 1000 / targetFPS milliseconds, in time units
FrameIntervalFor(fps) == TicksPerSecond \div fps

\* A setSize that enlarges the current size by the given one.
SetSizeAdds(r, w, h) ==
    [r EXCEPT !.width = Min(@ + w, 2 * MaxDim), !.height = Min(@ + h, 2 * MaxDim)]

\* renderer.setSize(width, height)
SetSize(r, w, h) == [r EXCEPT !.width = w, !.height = h]

\* renderer.setPixelRatio(value)
SetPixelRatio(r, p) == [r EXCEPT !.pixelRatio = p]

\* if (enableShadows ?? true) { shadowMap.enabled = true; shadowMap.type = ... }
ApplyShadows(r, cfg) ==
    IF ShadowsWanted(cfg)
    THEN [r EXCEPT !.shadowEnabled = TRUE, !.shadowType = ShadowTypeFor(cfg)]
    ELSE r

\* constructor: setSize, setPixelRatio, shadow map
ConstructorSettings(r, cfg, win) ==
    ApplyShadows(
        SetPixelRatio(SetSize(r, win.innerWidth, win.innerHeight),
                      PixelRatioFor(cfg, win.devicePixelRatio)),
        cfg)

\* A WebGLRenderer as three.js creates it, before the engine configures it.
NewRenderer == [width |-> 0, height |-> 0, pixelRatio |-> 1,
                shadowEnabled |-> FALSE, shadowType |-> "PCFShadowMap"]

\* Size of the drawing buffer: the canvas gets floor(size * pixelRatio) pixels.
DrawingBuffer(r) == <<r.width * r.pixelRatio, r.height * r.pixelRatio>>

\* webglcontextrestored listener: setSize, setPixelRatio, shadow map
RestoredSettings(r, cfg, win) ==
    ApplyShadows(
        SetPixelRatio(SetSize(r, win.innerWidth, win.innerHeight),
                      PixelRatioFor(cfg, win.devicePixelRatio)),
        cfg)

\* What context restoration has to reproduce.
Settings(r) == [buffer |-> DrawingBuffer(r), pixelRatio |-> r.pixelRatio,
                shadowEnabled |-> r.shadowEnabled, shadowType |-> r.shadowType]

-----------------------------------------------------------------------------
(* The engine's fields and what its calls touch, as one record, so that    *)
(* calls made inside a handler compose.                                    *)

Cur == [game |-> game, lastTime |-> lastTime, lastFrameTime |-> lastFrameTime,
        animationId |-> animationId, isContextLost |-> isContextLost,
        background |-> background, disposed |-> disposed,
        ctxAlive |-> ctxAlive, lostEventPending |-> lostEventPending,
        pending |-> pending, trace |-> <<>>, escaped |-> FALSE,
        sess |-> sess, gameSess |-> gameSess, overlap |-> overlap,
        preLoss |-> preLoss, losses |-> losses, tickedAt |-> tickedAt,
        disposedGames |-> disposedGames]

\* One call made by a handler, with the engine flags at the moment of the call.
Ev(op, e, d) == [op |-> op, lost |-> e.isContextLost, bg |-> e.background,
                 game |-> e.game, delta |-> d]

Log(e, op, d) == [e EXCEPT !.trace = Append(@, Ev(op, e, d))]

\* What the game's update does besides its own work (the game is a collaborator):
\* an engine call it makes, whether it clears scene.background, whether it
\* throws; and what happens to the context and the draw call during the tick.
Quiet == [call |-> "none", arg |-> Null, throws |-> FALSE, clearsBackground |-> FALSE,
          diesInUpdate |-> FALSE, drawThrows |-> FALSE, diesInDraw |-> FALSE]

\* An update that throws never reaches the draw call, so what the draw call
\* would do is left out for it.  An update that calls back into the engine is
\* combined with the context dying before the call and with a throw after it.
Inputs ==
    {in \in [call : {"none"}, arg : {Null}, throws : BOOLEAN,
             clearsBackground : BOOLEAN, diesInUpdate : BOOLEAN,
             drawThrows : BOOLEAN, diesInDraw : BOOLEAN] :
        in.throws => ~in.drawThrows /\ ~in.diesInDraw}
    \cup
    [call : {"stop"}, arg : {Null}, throws : BOOLEAN,
     clearsBackground : {FALSE}, diesInUpdate : {FALSE},
     drawThrows : {FALSE}, diesInDraw : {FALSE}]
    \cup
    [call : {"run"}, arg : Games, throws : BOOLEAN,
     clearsBackground : {FALSE}, diesInUpdate : BOOLEAN,
     drawThrows : {FALSE}, diesInDraw : {FALSE}]

\* The browser's context dies: gl.isContextLost() turns true, the event is queued.
Die(e) ==
    IF e.ctxAlive
    THEN [e EXCEPT !.ctxAlive = FALSE, !.lostEventPending = TRUE,
                   !.preLoss = Settings(renderer), !.losses = @ + 1]
    ELSE e

\* requestAnimationFrame returns a handle no live request has.
FreshId(e) ==
    CHOOSE i \in 1..(Cardinality(e.pending) + 2) :
        /\ i \notin e.pending
        /\ i # e.animationId
        /\ \A j \in 1..(i - 1) : j \in e.pending \/ j = e.animationId

\* A loop that stops requesting frames while the context is lost.
RequestFrameUnlessLost(e) ==
    IF e.isContextLost
    THEN e
    ELSE LET id == FreshId(e)
         IN  Log([e EXCEPT !.pending = @ \cup {id}, !.animationId = id],
                 "requestAnimationFrame", 0)

\* this.animationId = requestAnimationFrame(this.animate)
RequestFrame(e) ==
    LET id == FreshId(e)
    IN  Log([e EXCEPT !.pending = @ \cup {id}, !.animationId = id],
            "requestAnimationFrame", 0)

\* A stop() that forgets the handle without cancelling the request.
CancelFrameForgets(e) == [e EXCEPT !.animationId = 0]

\* if (this.animationId !== null) { cancelAnimationFrame(...); this.animationId = null }
CancelFrame(e) ==
    IF e.animationId # 0
    THEN Log([e EXCEPT !.pending = @ \ {e.animationId}, !.animationId = 0],
             "cancelAnimationFrame", 0)
    ELSE e

\* The engine specifications that do not follow which games were disposed
\* keep this marker in disposedGames.
NotFollowed == {Null}

\* The games disposed so far, g now among them.
Disposing(d, g) == IF d = NotFollowed THEN d ELSE d \cup {g}

\* A stop() that disposes the game and keeps the reference to it.
DisposeGameKeepsRef(e) ==
    IF e.game # Null
    THEN [Log(e, "game.dispose", 0) EXCEPT
              !.sess[e.gameSess].disposes = @ + 1,
              !.disposedGames = Disposing(@, e.game)]
    ELSE e

\* if (this.game) { this.game.dispose(); this.game = null }
DisposeGame(e) ==
    IF e.game # Null
    THEN [Log(e, "game.dispose", 0) EXCEPT
              !.sess[e.gameSess].disposes = @ + 1,
              !.disposedGames = Disposing(@, e.game),
              !.game = Null, !.gameSess = 0]
    ELSE e

\* Engine.stop
Stop(e) == DisposeGame(CancelFrame(e))

\* Engine.dispose
Dispose(e) ==
    [Log(Log(Log(Stop(e), "input.dispose", 0), "mobileInput.dispose", 0),
         "renderer.dispose", 0)
     EXCEPT !.disposed = TRUE]

\* A run() that forgets to stop the game already running.
StopPreviousSkipped(e) == e

\* if (this.game) { this.stop() }
StopPrevious(e) == IF e.game # Null THEN Stop(e) ELSE e

\* A run() that forgets to clear lastTime.
StartSessionKeepsLastTime(e, g) ==
    [e EXCEPT !.game = g, !.lastFrameTime = 0,
              !.gameSess = Len(e.sess) + 1, !.tickedAt = -1,
              !.sess = Append(@, [disposes |-> 0, firstDelta |-> -1])]

\* this.game = game; this.lastTime = 0; this.lastFrameTime = 0
StartSession(e, g) ==
    [e EXCEPT !.game = g, !.lastTime = 0, !.lastFrameTime = 0,
              !.gameSess = Len(e.sess) + 1, !.tickedAt = -1,
              !.sess = Append(@, [disposes |-> 0, firstDelta |-> -1])]

\* Pacing that also skips a callback exactly one interval after the last frame.
ThrottledInclusive(elapsed, interval) == elapsed <= interval

\* if (elapsed < this.frameInterval) return
Throttled(elapsed, interval) == elapsed < interval

\* Pacing that forgets the remainder: lastFrameTime stays where it was.
NextFrameTimeWithoutRemainder(time, elapsed, interval) == time - elapsed

\* Naive pacing: the last frame time is the raw timestamp.
NextFrameTimeNaive(time, elapsed, interval) == time

\* this.lastFrameTime = time - (elapsed % this.frameInterval)
NextFrameTime(time, elapsed, interval) == time - JsMod(elapsed, interval)

\* A frame clock that clamps the delta to one 30 FPS frame.
DeltaTimeClamped(last, time) ==
    IF last # 0 THEN Min(time - last, TicksPerSecond \div MobileFPS) ELSE 0

\* const deltaTime = this.lastTime ? (time - this.lastTime) / 1000 : 0
DeltaTime(last, time) == IF last # 0 THEN time - last ELSE 0

\* this.input.resetMouseDelta()
ResetMouseDelta(e) == Log(e, "resetMouseDelta", 0)

\* A tick without the defensive background check.
EnsureBackgroundSkipped(e) == e

\* if (!this.scene.background) { this.scene.background = new THREE.Color(...) }
EnsureBackground(e) ==
    IF ~e.background
    THEN Log([e EXCEPT !.background = TRUE], "setBackground", 0)
    ELSE e

\* A catch block that takes every draw error for a lost context.
CatchRenderErrorAlwaysLost(e) ==
    Log([e EXCEPT !.isContextLost = TRUE], "console.warn", 0)

\* catch (error) { if (gl && gl.isContextLost()) {...} else {...} }
CatchRenderError(e) ==
    IF ~e.ctxAlive
    THEN Log([e EXCEPT !.isContextLost = TRUE], "console.warn", 0)
    ELSE LET logged == Log(e, "console.error", 0)
         IN  IF ~logged.ctxAlive
             THEN [logged EXCEPT !.isContextLost = TRUE]
             ELSE logged

\* try { this.renderer.render(scene, camera) } catch (error) { ... }
Render(e, in) ==
    LET drawn == Log(e, "render", 0)
        after == IF in.diesInDraw THEN Die(drawn) ELSE drawn
    IN  IF in.drawThrows THEN CatchRenderError(after) ELSE after

\* The callback with timestamp time is about to call game.update.
NoteTick(e, time) == [e EXCEPT !.tickedAt = time]

\* The bookkeeping of one game.update(deltaTime) call.
NoteUpdate(e, d) ==
    [Log(e, "update", d) EXCEPT
        !.sess[e.gameSess].firstDelta = IF @ = -1 THEN d ELSE @,
        !.overlap = @ \/ \E s \in 1..(e.gameSess - 1) : e.sess[s].disposes # 1]

RECURSIVE Animate(_, _, _, _)
RECURSIVE Run(_, _, _)

\* this.game.update(deltaTime), with what the game does inside it
GameUpdate(e, d, in, depth) ==
    LET e1 == NoteUpdate(e, d)
        e2 == IF in.diesInUpdate THEN Die(e1) ELSE e1
        e3 == IF in.clearsBackground THEN [e2 EXCEPT !.background = FALSE] ELSE e2
        e4 == CASE in.call = "run" -> Run(e3, in.arg, depth + 1)
                [] in.call = "stop" -> Stop(e3)
                [] OTHER -> e3
    IN  IF in.throws THEN [e4 EXCEPT !.escaped = TRUE] ELSE e4

\* An animate that requests the next frame at its end instead of its start.
AnimateSchedulesLast(e, time, in, depth) ==
    IF e.isContextLost THEN RequestFrame(e)
    ELSE IF ~e.ctxAlive THEN RequestFrame([e EXCEPT !.isContextLost = TRUE])
    ELSE LET elapsed == time - e.lastFrameTime
         IN  IF Throttled(elapsed, frameInterval) THEN RequestFrame(e)
             ELSE LET e1 == [e EXCEPT !.lastFrameTime =
                                 NextFrameTime(time, elapsed, frameInterval)]
                      deltaTime == DeltaTime(e1.lastTime, time)
                      e2 == [e1 EXCEPT !.lastTime = time]
                      e3 == IF e2.game # Null
                            THEN GameUpdate(NoteTick(e2, time), deltaTime,
                                            IF depth = 0 THEN in ELSE Quiet, depth)
                            ELSE e2
                  IN  IF e3.escaped THEN e3
                      ELSE RequestFrame(
                               Render(EnsureBackground(ResetMouseDelta(e3)), in))

\* Engine.animate.  A game.update reached from a nested animate makes no
\* further engine call (depth > 0 uses Quiet).
Animate(e, time, in, depth) ==
    LET e0 == RequestFrame(e)
    IN  IF e0.isContextLost THEN e0
        ELSE IF ~e0.ctxAlive THEN [e0 EXCEPT !.isContextLost = TRUE]
        ELSE LET elapsed == time - e0.lastFrameTime
             IN  IF Throttled(elapsed, frameInterval) THEN e0
                 ELSE LET e1 == [e0 EXCEPT !.lastFrameTime =
                                     NextFrameTime(time, elapsed, frameInterval)]
                          deltaTime == DeltaTime(e1.lastTime, time)
                          e2 == [e1 EXCEPT !.lastTime = time]
                          e3 == IF e2.game # Null
                                THEN GameUpdate(NoteTick(e2, time), deltaTime,
                                                IF depth = 0 THEN in ELSE Quiet, depth)
                                ELSE e2
                      IN  IF e3.escaped THEN e3
                          ELSE Render(EnsureBackground(ResetMouseDelta(e3)), in)

\* Engine.run
Run(e, g, depth) ==
    Animate(StartSession(StopPrevious(e), g), 0, Quiet, depth)

\* The handler's result becomes the next state.
Commit(e, h) ==
    /\ game' = e.game
    /\ lastTime' = e.lastTime
    /\ lastFrameTime' = e.lastFrameTime
    /\ animationId' = e.animationId
    /\ isContextLost' = e.isContextLost
    /\ background' = e.background
    /\ disposed' = e.disposed
    /\ ctxAlive' = e.ctxAlive
    /\ lostEventPending' = e.lostEventPending
    /\ pending' = e.pending
    /\ trace' = e.trace
    /\ escaped' = e.escaped
    /\ sess' = e.sess
    /\ gameSess' = e.gameSess
    /\ overlap' = e.overlap
    /\ preLoss' = e.preLoss
    /\ losses' = e.losses
    /\ tickedAt' = e.tickedAt
    /\ disposedGames' = e.disposedGames
    /\ handler' = h
    /\ resizedAgain' = FALSE

-----------------------------------------------------------------------------
(* The state after new Engine(config) *)

Constructed(cfg, sz, dpr) ==
    /\ config = cfg
    /\ window = [innerWidth |-> sz[1], innerHeight |-> sz[2],
                 devicePixelRatio |-> dpr]
    /\ targetFPS = IF IsMobile(cfg) THEN MobileFPS ELSE DefaultFPS
    /\ frameInterval = FrameIntervalFor(IF IsMobile(cfg) THEN MobileFPS
                                                          ELSE DefaultFPS)
    /\ background = TRUE
    /\ fog = ~IsMobile(cfg)
    /\ cameraAspect = sz
    /\ renderer = ConstructorSettings(NewRenderer, cfg,
                      [innerWidth |-> sz[1], innerHeight |-> sz[2],
                       devicePixelRatio |-> dpr])
    /\ game = Null
    /\ lastTime = 0
    /\ lastFrameTime = 0
    /\ animationId = 0
    /\ isContextLost = FALSE
    /\ disposed = FALSE
    /\ ctxAlive = TRUE
    /\ lostEventPending = FALSE
    /\ canRestore = FALSE
    /\ pending = {}
    /\ now = 0
    /\ handler = "constructor"
    /\ trace = <<>>
    /\ escaped = FALSE
    /\ sess = <<>>
    /\ gameSess = 0
    /\ overlap = FALSE
    /\ preLoss = Settings(renderer)
    /\ losses = 0
    /\ tickedAt = -1
    /\ resizedAgain = FALSE

\* The loop is studied on one desktop and one mobile configuration in a
\* window that keeps its size.
LoopConfigs == {[canvas |-> "canvas"], [canvas |-> "canvas", maxPixelRatio |-> 1]}

\* No Platform has been constructed on the engine.
NoPlatform ==
    /\ platforms = <<>>
    /\ sceneMeshes = {}
    /\ observed = <<>>
    /\ args = <<>>

gameVars == <<customers, query, player, keyE, pgame, tick>>

\* No PlatformerGame has been constructed on the engine.
NoGame ==
    /\ customers = <<>>
    /\ query = <<>>
    /\ player = [position |-> <<0, 0, 0>>, ingredients |-> <<>>]
    /\ keyE = FALSE
    /\ pgame = [currentCustomer |-> 0, score |-> 0]
    /\ tick = [n |-> 0, list |-> <<>>]

Init ==
    /\ \E cfg \in LoopConfigs : Constructed(cfg, <<MaxDim, 1>>, 1)
    /\ disposedGames = NotFollowed
    /\ NoPlatform
    /\ NoGame

unchangedByLoop == <<config, targetFPS, frameInterval, fog, cameraAspect,
                     renderer, window, canRestore, platforms, sceneMeshes,
                     observed, args, customers, query, player, keyE, pgame,
                     tick>>

unchangedByEvent == <<game, lastTime, lastFrameTime, animationId, background,
                      disposed, pending, now, escaped, sess, gameSess, overlap,
                      tickedAt, disposedGames, config, targetFPS,
                      frameInterval, fog, platforms, sceneMeshes, observed, args, customers, query,
                      player, keyE, pgame, tick>>

\* engine.run(g), called from outside a tick
RunGame(g) ==
    /\ Len(sess) < MaxRuns
    /\ Commit(Run(Cur, g, 0), "run")
    /\ UNCHANGED <<unchangedByLoop, now>>

\* engine.stop(), called from outside a tick
StopGame ==
    /\ Commit(Stop(Cur), "stop")
    /\ UNCHANGED <<unchangedByLoop, now>>

\* engine.dispose(), called from outside a tick
DisposeEngine ==
    /\ Commit(Dispose(Cur), "dispose")
    /\ UNCHANGED <<unchangedByLoop, now>>

\* Whether animate passes its three early returns (flag, live check, pacing).
Advances(e, time) ==
    /\ ~e.isContextLost
    /\ e.ctxAlive
    /\ ~Throttled(time - e.lastFrameTime, frameInterval)

\* The game and the draw call act only in a callback that advances.
InputsAt(t) == IF Advances(Cur, t) THEN Inputs ELSE {Quiet}

\* The browser runs a requested animation-frame callback with timestamp t.
Callback(t, in) ==
    /\ \E id \in pending :
          Commit(Animate([Cur EXCEPT !.pending = @ \ {id}], t, in, 0), "animate")
    /\ in.call = "run" => Len(sess) < MaxRuns
    /\ in.diesInUpdate \/ in.diesInDraw => losses < MaxLosses
    /\ now' = t
    /\ UNCHANGED unchangedByLoop

\* Whether a game defines the optional onResize hook.
HasOnResize(g) == g = "gameA"

\* A resize listener that puts the resize off while the context is lost.
HandleResizeUnlessLost ==
    /\ cameraAspect' = IF isContextLost THEN cameraAspect
                       ELSE <<window.innerWidth, window.innerHeight>>
    /\ renderer' = IF isContextLost THEN renderer
                   ELSE SetSize(renderer, window.innerWidth, window.innerHeight)
    /\ trace' = IF isContextLost THEN <<>>
                ELSE <<Ev("updateProjectionMatrix", Cur, 0), Ev("setSize", Cur, 0)>>
                     \o (IF game # Null /\ HasOnResize(game)
                         THEN <<Ev("onResize", Cur, 0)>> ELSE <<>>)
    /\ handler' = "resize"
    /\ resizedAgain' = (handler = "resize")
    /\ preLoss' = IF ctxAlive THEN Settings(renderer') ELSE preLoss
    /\ UNCHANGED <<unchangedByEvent, losses, window, isContextLost, ctxAlive,
                   lostEventPending, canRestore>>

\* Engine.handleResize, the window's resize listener
HandleResize ==
    /\ cameraAspect' = <<window.innerWidth, window.innerHeight>>
    /\ renderer' = SetSize(renderer, window.innerWidth, window.innerHeight)
    /\ trace' = <<Ev("updateProjectionMatrix", Cur, 0), Ev("setSize", Cur, 0)>>
                \o (IF game # Null /\ HasOnResize(game)
                    THEN <<Ev("onResize", Cur, 0)>> ELSE <<>>)
    /\ handler' = "resize"
    /\ resizedAgain' = (handler = "resize")
    /\ preLoss' = IF ctxAlive THEN Settings(renderer') ELSE preLoss
    /\ UNCHANGED <<unchangedByEvent, losses, window, isContextLost, ctxAlive,
                   lostEventPending, canRestore>>

\* The user resizes the window.
WindowChange(sz) ==
    /\ sz # <<window.innerWidth, window.innerHeight>>
    /\ window' = [window EXCEPT !.innerWidth = sz[1], !.innerHeight = sz[2]]
    /\ handler' = "environment"
    /\ resizedAgain' = FALSE
    /\ trace' = <<>>
    /\ UNCHANGED <<unchangedByEvent, losses, cameraAspect, renderer, isContextLost,
                   ctxAlive, lostEventPending, canRestore, preLoss>>

\* window.devicePixelRatio changes (zoom, another display).
RatioChange(r) ==
    /\ r # window.devicePixelRatio
    /\ window' = [window EXCEPT !.devicePixelRatio = r]
    /\ handler' = "environment"
    /\ resizedAgain' = FALSE
    /\ trace' = <<>>
    /\ UNCHANGED <<unchangedByEvent, losses, cameraAspect, renderer, isContextLost,
                   ctxAlive, lostEventPending, canRestore, preLoss>>

\* The context dies between handlers.
ContextDies ==
    /\ ctxAlive
    /\ losses < MaxLosses
    /\ ctxAlive' = FALSE
    /\ lostEventPending' = TRUE
    /\ preLoss' = Settings(renderer)
    /\ losses' = losses + 1
    /\ handler' = "environment"
    /\ resizedAgain' = FALSE
    /\ trace' = <<>>
    /\ UNCHANGED <<unchangedByEvent, cameraAspect, renderer, window,
                   isContextLost, canRestore>>

\* The webglcontextlost listener
ContextLost ==
    /\ lostEventPending
    /\ lostEventPending' = FALSE
    /\ canRestore' = TRUE
    /\ isContextLost' = TRUE
    /\ handler' = "webglcontextlost"
    /\ resizedAgain' = FALSE
    /\ trace' = <<Ev("preventDefault", Cur, 0), Ev("console.warn", Cur, 0)>>
    /\ UNCHANGED <<unchangedByEvent, losses, cameraAspect, renderer, window, ctxAlive,
                   preLoss>>

\* The webglcontextrestored listener; the browser restores the context and
\* then fires the event, only after a lost event whose default was prevented.
ContextRestored ==
    /\ ~ctxAlive
    /\ canRestore
    /\ ~lostEventPending
    /\ ctxAlive' = TRUE
    /\ canRestore' = FALSE
    /\ isContextLost' = FALSE
    /\ renderer' = RestoredSettings(renderer, config, window)
    /\ handler' = "webglcontextrestored"
    /\ resizedAgain' = FALSE
    /\ trace' = <<Ev("console.log", Cur, 0), Ev("setSize", Cur, 0),
                  Ev("setPixelRatio", Cur, 0)>>
    /\ preLoss' = Settings(renderer')
    /\ UNCHANGED <<unchangedByEvent, cameraAspect, window, lostEventPending,
                   losses>>

Times == {t \in 0..MaxTime : t >= now /\ t <= now + MaxStep}

Next ==
    \/ \E g \in Games : RunGame(g)
    \/ StopGame
    \/ \E t \in Times : \E in \in InputsAt(t) : Callback(t, in)
    \/ ContextDies
    \/ ContextLost
    \/ ContextRestored

Spec == Init /\ [][Next]_vars

\* The render surface is studied over every configuration, with the window
\* and the device pixel ratio changing, under one game that only updates and
\* frames that arrive MaxStep apart.
SurfaceInit ==
    /\ \E cfg \in Configs, sz \in WinSizes, dpr \in Ratios : Constructed(cfg, sz, dpr)
    /\ disposedGames = NotFollowed
    /\ NoPlatform
    /\ NoGame

SurfaceNext ==
    \/ \E r \in Ratios : RatioChange(r)
    \/ \E sz \in WinSizes : WindowChange(sz)
    \/ HandleResize
    \/ \E g \in Games : sess = <<>> /\ RunGame(g)
    \/ StopGame
    \/ DisposeEngine
    \/ (now + MaxStep <= MaxTime /\ Callback(now + MaxStep, Quiet))
    \/ ContextDies
    \/ ContextLost
    \/ ContextRestored

SurfaceSpec == SurfaceInit /\ [][SurfaceNext]_vars

-----------------------------------------------------------------------------
(* Reading the trace of the latest handler *)

Has1(tr, op) == \E i \in DOMAIN tr : tr[i].op = op

Count(tr, op) == Cardinality({i \in DOMAIN tr : tr[i].op = op})

\* update, input reset or draw
IsWork(ev) == ev.op \in {"update", "resetMouseDelta", "render"}

NoWork(tr) == \A i \in DOMAIN tr : ~IsWork(tr[i])

-----------------------------------------------------------------------------
(* C1: when run(B) follows run(A), A is disposed exactly once, before B's   *)
(* first update; no update is dispatched while an earlier session is not   *)
(* disposed, and a session is never disposed twice.                        *)
C1_SessionsNeverOverlap ==
    /\ ~overlap
    /\ \A s \in 1..Len(sess) :
          /\ sess[s].disposes <= 1
          /\ s < Len(sess) => sess[s].disposes = 1
    /\ gameSess \in {0, Len(sess)}
    /\ (gameSess = 0) = (game = Null)

\* B was started from inside A.update: that tick updated A, disposed it and
\* left B, a different game, active.
C1_Witness ==
    /\ handler = "animate"
    /\ Len(sess) = 2
    /\ sess[1].disposes = 1
    /\ game # Null
    /\ \E i, j \in DOMAIN trace :
          /\ i < j
          /\ trace[i].op = "update"
          /\ trace[j].op = "game.dispose"
          /\ trace[j].game = trace[i].game
          /\ trace[j].game # game

(* C2: the first update of every session receives delta 0. *)
C2_FirstDeltaZero ==
    \A s \in 1..Len(sess) : sess[s].firstDelta \in {-1, 0}

\* A second session got its first update after the first session had ticked
\* at a non-zero timestamp.
C2_Witness ==
    /\ Len(sess) = 2
    /\ sess[1].firstDelta = 0
    /\ sess[2].firstDelta = 0
    /\ handler = "animate"
    /\ Has1(trace, "update")
    /\ now >= 2 * frameInterval

(* C3: once the context-lost flag is set it stays set until the           *)
(* restoration signal, which alone clears it, and while it is set no       *)
(* callback calls game.update, the input reset or the draw call.           *)
C3_LostFlagStopsAllWork ==
    [][/\ isContextLost /\ handler' # "webglcontextrestored" => isContextLost'
       /\ handler' = "animate" =>
             \A i \in DOMAIN trace' : IsWork(trace'[i]) => ~trace'[i].lost]_vars

(* C4: after the restoration signal the drawing-buffer size, the pixel     *)
(* ratio and the shadow-map settings are the ones the renderer had when    *)
(* the context was lost.                                                   *)
C4_RestoredSettingsEqualPreLoss ==
    [][handler' = "webglcontextrestored" => Settings(renderer') = preLoss]_vars

-----------------------------------------------------------------------------
(* Facts about the step from the state before a callback to the state     *)
(* after it: now' is the callback's timestamp.                             *)

Paced == now' - lastFrameTime >= frameInterval

ContextValid == ~isContextLost /\ ctxAlive

\* The callback requested the next frame and that request is still pending.
NextScheduled == animationId # 0 /\ animationId \in pending

\* Positions of the calls in a trace
Pos(tr, op) == {i \in DOMAIN tr : tr[i].op = op}

\* Every call of kind a comes before every call of kind b.
Before(tr, a, b) == \A i \in Pos(tr, a), j \in Pos(tr, b) : i < j

\* The draw call threw and the catch block ran.
Caught(tr) ==
    \E i, j \in DOMAIN tr :
        /\ i < j
        /\ tr[i].op = "render"
        /\ tr[j].op \in {"console.warn", "console.error"}

\* The game called engine.stop() or engine.run() inside update.
CancelledInside(tr) == Has1(tr, "cancelAnimationFrame")

(* C5: context loss never stops the loop.  A callback that finds the flag  *)
(* set does nothing but request the next frame; once the flag is clear and *)
(* the context is valid, the next callback that passes pacing calls        *)
(* game.update and, when update returns, draws after it.                   *)
C5_LossNeverStopsLoop ==
    [][handler' = "animate" =>
          /\ isContextLost =>
                /\ Len(trace') = 1
                /\ trace'[1].op = "requestAnimationFrame"
                /\ NextScheduled'
                /\ isContextLost'
          /\ ContextValid /\ Paced /\ game # Null =>
                /\ Count(trace', "update") = 1
                /\ ~escaped' => /\ Count(trace', "render") = 1
                                /\ Before(trace', "update", "render")]_vars

\* A callback updated and drew after the context had been lost and restored.
C5_Witness ==
    /\ handler = "animate"
    /\ losses >= 1
    /\ ctxAlive
    /\ ~isContextLost
    /\ Has1(trace, "update")
    /\ Has1(trace, "render")
    /\ NextScheduled

(* C6: a draw call that throws never lets the exception leave the          *)
(* callback; afterwards the flag is set exactly when the context is dead,  *)
(* and after a failed draw with the context alive the next paced callback  *)
(* updates and draws again.                                                *)
C6_RenderFailureContained ==
    [][/\ handler' = "animate" /\ Caught(trace') =>
             /\ ~escaped'
             /\ isContextLost' = ~ctxAlive'
       /\ /\ handler = "animate" /\ Caught(trace) /\ ctxAlive
          /\ handler' = "animate" /\ Paced /\ game # Null
          => /\ Count(trace', "update") = 1
             /\ ~escaped' => Count(trace', "render") = 1]_vars

\* A draw call threw with the context alive: the flag is clear, the game is
\* still active and the next callback is pending.
C6_Witness ==
    /\ handler = "animate"
    /\ Caught(trace)
    /\ ctxAlive
    /\ ~isContextLost
    /\ game # Null
    /\ NextScheduled

(* C7: a callback calls game.update at most once and draws at most once;   *)
(* the order is update, input reset, background check, draw; a draw is     *)
(* never issued with the background unset; a callback skipped by pacing or *)
(* context loss calls none of them.                                        *)
C7_TickOrder ==
    [][handler' = "animate" =>
          /\ Count(trace', "update") <= 1
          /\ Count(trace', "resetMouseDelta") <= 1
          /\ Count(trace', "render") <= 1
          /\ Before(trace', "update", "resetMouseDelta")
          /\ Before(trace', "resetMouseDelta", "setBackground")
          /\ Before(trace', "setBackground", "render")
          /\ Before(trace', "resetMouseDelta", "render")
          /\ Has1(trace', "render") =>
                Has1(trace', "resetMouseDelta") /\ Has1(trace', "update")
          /\ Has1(trace', "resetMouseDelta") /\ ~escaped' => Has1(trace', "render")
          /\ \A i \in Pos(trace', "render") : trace'[i].bg
          /\ ~ContextValid \/ ~Paced => NoWork(trace')]_vars

\* The game cleared the background in update; the tick set it again before
\* drawing.
C7_Witness ==
    /\ handler = "animate"
    /\ \E i, j, k, l \in DOMAIN trace :
          /\ i < j /\ j < k /\ k < l
          /\ trace[i].op = "update"
          /\ trace[j].op = "resetMouseDelta"
          /\ ~trace[j].bg
          /\ trace[k].op = "setBackground"
          /\ trace[l].op = "render"
          /\ trace[l].bg

C9_Throttle ==
    [][handler' = "animate" =>
          /\ ~Paced =>
                /\ lastFrameTime' = lastFrameTime
                /\ lastTime' = lastTime
                /\ NoWork(trace')
                /\ NextScheduled'
          /\ Paced /\ ContextValid =>
                /\ ~NoWork(trace')
                /\ ~CancelledInside(trace') => lastTime' = now']_vars

\* A callback was throttled after an earlier one had advanced.
C9_Witness ==
    /\ handler = "animate"
    /\ ~isContextLost
    /\ ctxAlive
    /\ Len(trace) = 1
    /\ lastFrameTime > 0
    /\ now > lastFrameTime
    /\ now - lastFrameTime < frameInterval
    /\ NextScheduled

(* C10: pacing preserves the phase.  An advance sets lastFrameTime to       *)
(* timestamp - ((timestamp - lastFrameTime) mod frameInterval); it stays a *)
(* multiple of frameInterval, and after an advance the timestamp is less   *)
(* than one interval ahead of it.                                          *)
C10_PhasePreserved ==
    [][/\ lastFrameTime' % frameInterval = 0
       /\ /\ handler' = "animate" /\ ~NoWork(trace') /\ ~CancelledInside(trace')
          => /\ lastFrameTime' =
                   now' - ((now' - lastFrameTime) % frameInterval)
             /\ 0 <= now' - lastFrameTime'
             /\ now' - lastFrameTime' < frameInterval]_vars

\* A second advance at a timestamp that is no multiple of the interval.
C10_Witness ==
    /\ handler = "animate"
    /\ Has1(trace, "update")
    /\ ~CancelledInside(trace)
    /\ \E i \in DOMAIN trace : trace[i].op = "update" /\ trace[i].delta > 0
    /\ now % frameInterval # 0
    /\ lastFrameTime >= 2 * frameInterval

-----------------------------------------------------------------------------
(* The frame interval in time units for each device tier *)

MobileInterval == TicksPerSecond \div MobileFPS

DesktopInterval == TicksPerSecond \div DefaultFPS

(* C11: the frame interval is 1000/30 ms when the engine was constructed   *)
(* with maxPixelRatio present and 1000/60 ms otherwise, and no operation   *)
(* (run, stop, tick, resize, context loss or restoration) changes it.      *)
C11_FrameIntervalFixed ==
    [][/\ frameInterval = IF "maxPixelRatio" \in DOMAIN config
                          THEN MobileInterval ELSE DesktopInterval
       /\ frameInterval' = frameInterval
       /\ targetFPS' = targetFPS
       /\ config' = config]_vars

\* An engine constructed with a cap of 0 ran a game, ticked, lost and got
\* back its context and handled a resize: the interval is still 1000/30 ms.
C11_Witness ==
    /\ "maxPixelRatio" \in DOMAIN config
    /\ config.maxPixelRatio = 0
    /\ handler = "resize"
    /\ game # Null
    /\ now > 0
    /\ losses >= 1
    /\ ctxAlive
    /\ frameInterval = MobileInterval
    /\ targetFPS = MobileFPS

(* C12: presence of maxPixelRatio alone selects the constrained tier.      *)
(* After construction and after restoration, a configuration with          *)
(* maxPixelRatio (any value, 0 included) has the 30 FPS interval, no fog,  *)
(* the basic shadow filter when shadows are enabled and a pixel ratio no   *)
(* greater than the cap; one without it has 60 FPS, fog, soft shadows and  *)
(* the unclamped device pixel ratio.                                       *)
C12_PresenceSelectsTier ==
    handler \in {"constructor", "webglcontextrestored"} =>
        IF "maxPixelRatio" \in DOMAIN config
        THEN /\ frameInterval = MobileInterval
             /\ ~fog
             /\ renderer.shadowEnabled => renderer.shadowType = "BasicShadowMap"
             /\ renderer.pixelRatio <= config.maxPixelRatio
        ELSE /\ frameInterval = DesktopInterval
             /\ fog
             /\ renderer.shadowEnabled => renderer.shadowType = "PCFSoftShadowMap"
             /\ renderer.pixelRatio = window.devicePixelRatio

(* C13: every update after the first one of a session receives the delta   *)
(* (timestamp of this advancing callback - timestamp of the previous       *)
(* advancing callback of the session), which is never negative.            *)
C13_DeltaIsTimeSincePreviousTick ==
    [][handler' = "animate" /\ game # Null /\ tickedAt # -1 =>
          \A i \in Pos(trace', "update") :
              /\ trace'[i].delta = now' - tickedAt
              /\ trace'[i].delta >= 0]_vars

\* A session ticked, callbacks were skipped while the context was lost, and
\* the update after restoration got the whole time since the tick before.
C13_Witness ==
    /\ handler = "animate"
    /\ game # Null
    /\ losses >= 1
    /\ sess[gameSess].firstDelta = 0
    /\ tickedAt = now
    /\ \E i \in Pos(trace, "update") : trace[i].delta > MaxStep

(* C14: the delta handed to game.update is bounded by a constant that does *)
(* not depend on the length of a stall.  The constant is the longest delta *)
(* a loop that never stalls can produce: one frame interval plus the       *)
(* longest gap between two callbacks.  After callbacks were skipped while  *)
(* the context was lost, the next update still gets a delta below it.      *)
C14_DeltaBoundedAfterStall ==
    [][handler' = "animate" =>
          \A i \in Pos(trace', "update") :
              trace'[i].delta < frameInterval + MaxStep]_vars

(* C15: stop() is idempotent.  With no game active and no callback pending *)
(* it changes no engine state and calls no game hook, so whatever stop()   *)
(* calls follow run(g), g.dispose() is called exactly once.                *)
C15_StopIdempotent ==
    [][/\ handler' = "stop" /\ game = Null /\ animationId = 0 =>
             /\ trace' = <<>>
             /\ UNCHANGED <<config, game, lastTime, lastFrameTime, animationId,
                            isContextLost, targetFPS, frameInterval, background,
                            fog, cameraAspect, renderer, disposed, pending,
                            sess, gameSess>>
       /\ handler' = "stop" /\ game # Null =>
             /\ Count(trace', "game.dispose") = 1
             /\ sess'[gameSess].disposes = 1
             /\ game' = Null
       /\ \A s \in 1..Len(sess') : sess'[s].disposes <= 1]_vars

\* stop() was called again after the stop() that disposed the game of a
\* session that had ticked: it did nothing.
C15_Witness ==
    /\ handler = "stop"
    /\ trace = <<>>
    /\ game = Null
    /\ Len(sess) >= 1
    /\ sess[Len(sess)].disposes = 1
    /\ sess[Len(sess)].firstDelta = 0

\* The game called engine.stop() inside update.
StoppedInside(tr) ==
    \E i, j \in DOMAIN tr :
        /\ i < j
        /\ tr[i].op = "update"
        /\ tr[j].op = "game.dispose"

(* C16: after stop() no update and no draw happens until the next run():   *)
(* the pending callback is cancelled and none is requested.  When stop()   *)
(* is called inside game.update, that tick still resets the input and      *)
(* draws, and no later tick runs.  stop() leaves the renderer, the         *)
(* configuration and the context-lost flag as they were.                   *)
C16_NothingRunsAfterStop ==
    [][/\ game' = Null => pending' = {} /\ animationId' = 0
       /\ game = Null /\ handler' # "run" => NoWork(trace')
       /\ handler' = "stop" =>
             /\ game' = Null
             /\ ~Has1(trace', "requestAnimationFrame")
             /\ UNCHANGED <<config, renderer, cameraAspect, fog, targetFPS,
                            frameInterval, isContextLost, background, disposed>>
       /\ /\ handler' = "animate" /\ StoppedInside(trace')
          /\ game' = Null /\ ~escaped'
          => /\ Count(trace', "resetMouseDelta") = 1
             /\ Count(trace', "render") = 1
             /\ Before(trace', "game.dispose", "resetMouseDelta")
             /\ Before(trace', "requestAnimationFrame", "cancelAnimationFrame")]_vars

\* The game stopped the engine inside update: the tick went on to reset the
\* input and draw, and no callback is left.
C16_Witness ==
    /\ handler = "animate"
    /\ game = Null
    /\ pending = {}
    /\ animationId = 0
    /\ StoppedInside(trace)
    /\ \E i, j, k \in DOMAIN trace :
          /\ i < j /\ j < k
          /\ trace[i].op = "game.dispose"
          /\ trace[j].op = "resetMouseDelta"
          /\ trace[k].op = "render"

\* Calls on the renderer
IsRendererCall(ev) == ev.op \in {"setSize", "setPixelRatio", "render", "renderer.dispose"}

(* C17: dispose() releases the listeners the engine registered.  After     *)
(* dispose() a resize, context-lost or context-restored signal changes no  *)
(* engine, camera or renderer state and calls no renderer operation.       *)
C17_DisposeReleasesListeners ==
    [][disposed /\ handler' \in {"resize", "webglcontextlost", "webglcontextrestored"} =>
          /\ UNCHANGED <<game, lastTime, lastFrameTime, animationId, isContextLost,
                         targetFPS, frameInterval, cameraAspect, renderer>>
          /\ \A i \in DOMAIN trace' : ~IsRendererCall(trace'[i])]_vars

(* C18: a resize signal is applied at once in whatever state the engine is *)
(* in (idle, running, throttled, context lost): the handler sets the       *)
(* camera aspect to width/height, resizes the drawing buffer, calls the    *)
(* active game's onResize exactly once when the game defines it and never  *)
(* when idle, calls neither game.update nor the draw call and leaves the   *)
(* clock and the loop as they were.                                        *)
C18_ResizeAppliedAtOnce ==
    [][handler' = "resize" =>
          /\ cameraAspect' = <<window.innerWidth, window.innerHeight>>
          /\ renderer'.width = window.innerWidth
          /\ renderer'.height = window.innerHeight
          /\ DrawingBuffer(renderer') =
                 <<window.innerWidth * renderer.pixelRatio,
                   window.innerHeight * renderer.pixelRatio>>
          /\ Count(trace', "onResize") =
                 IF game # Null /\ HasOnResize(game) THEN 1 ELSE 0
          /\ NoWork(trace')
          /\ ~escaped'
          /\ UNCHANGED <<game, lastTime, lastFrameTime, animationId, pending,
                         now, isContextLost, sess, tickedAt>>]_vars

\* The window changed while the context was marked lost and a game with the
\* hook was running; the resize was applied and the hook called once.
C18_Witness ==
    /\ handler = "resize"
    /\ isContextLost
    /\ game # Null
    /\ HasOnResize(game)
    /\ animationId \in pending
    /\ now > 0
    /\ Count(trace, "onResize") = 1
    /\ cameraAspect = <<window.innerWidth, window.innerHeight>>
    /\ cameraAspect # <<MaxDim, 1>>
    /\ renderer.width = window.innerWidth

\* A game without the hook was running when the resize came: no hook call.
C18_WitnessNoHook ==
    /\ handler = "resize"
    /\ game # Null
    /\ ~HasOnResize(game)
    /\ Count(trace, "onResize") = 0
    /\ Has1(trace, "setSize")

(* C19: resize is idempotent.  A second resize signal for the same window  *)
(* dimensions leaves the camera aspect and the drawing-buffer size as the  *)
(* first one left them, raises no error, and calls the hook once, with the *)
(* same dimensions, as the first did.                                      *)
C19_ResizeIdempotent ==
    [][handler = "resize" /\ handler' = "resize" =>
          /\ cameraAspect' = cameraAspect
          /\ DrawingBuffer(renderer') = DrawingBuffer(renderer)
          /\ renderer' = renderer
          /\ ~escaped'
          /\ trace' = trace
          /\ Count(trace', "onResize") <= 1
          /\ UNCHANGED <<game, lastTime, lastFrameTime, animationId, pending,
                         isContextLost, fog, background, sess>>]_vars

\* Two resize signals in a row were handled while a game that defines the
\* hook was running.
C19_Witness ==
    /\ handler = "resize"
    /\ resizedAgain
    /\ game # Null
    /\ HasOnResize(game)
    /\ cameraAspect = <<window.innerWidth, window.innerHeight>>
    /\ renderer.width = window.innerWidth
    /\ Count(trace, "onResize") = 1

-----------------------------------------------------------------------------
(* Platform (Platform.ts).  Coordinates count tenths of a world unit; a    *)
(* size is an even number of tenths, so that size / 2 is a whole number.   *)

Axes == 1..3

Centers == {0 - MaxCenter, 0, MaxCenter}

Sizes == {0, 2, 2 * MaxHalfSize}

Vectors(S) == [Axes -> S]

\* PlatformConfig: position, size and the optional visible
PlatformConfigs ==
    [position : Vectors(Centers), size : Vectors(Sizes)]
    \cup [position : Vectors(Centers), size : Vectors(Sizes), visible : BOOLEAN]

\* Bounds that take the size for the half extent.
PlatformBoundsFullSize(position, size) ==
    [min |-> [k \in Axes |-> position[k] - size[k]],
     max |-> [k \in Axes |-> position[k] + size[k]]]

\* this.bounds = { min: position - size / 2, max: position + size / 2 }
PlatformBounds(position, size) ==
    [min |-> [k \in Axes |-> position[k] - size[k] \div 2],
     max |-> [k \in Axes |-> position[k] + size[k] \div 2]]

\* config.visible !== false
PlatformVisible(pc) == ~("visible" \in DOMAIN pc /\ pc.visible = FALSE)

\* new Platform(engine, config): the bounds, and the mesh when visible.  The
\* config is kept beside the object to state what the bounds were built from.
NewPlatform(pc) ==
    [bounds |-> PlatformBounds(pc.position, pc.size),
     mesh |-> IF PlatformVisible(pc)
              THEN <<[position |-> pc.position, size |-> pc.size,
                      disposed |-> FALSE]>>
              ELSE <<>>,
     config |-> pc]

engineVars == <<config, game, lastTime, lastFrameTime, animationId,
                isContextLost, targetFPS, frameInterval, background, fog,
                cameraAspect, renderer, disposed, window, ctxAlive,
                lostEventPending, canRestore, pending, now, handler, trace,
                escaped, sess, gameSess, overlap, preLoss, losses, tickedAt,
                disposedGames, resizedAgain>>

\* One engine and one platform constructed on it.
PlatformInit ==
    /\ Constructed([canvas |-> "canvas"], <<MaxDim, 1>>, 1)
    /\ disposedGames = NotFollowed
    /\ NoGame
    /\ \E pc \in PlatformConfigs :
          /\ platforms = <<NewPlatform(pc)>>
          /\ sceneMeshes = IF PlatformVisible(pc) THEN {1} ELSE {}
          /\ observed = <<>>
          /\ args = <<[position |-> pc.position, size |-> pc.size]>>

\* A getBounds that works the bounds out of the config vectors on every call.
GetBoundsRecomputed(i) ==
    /\ observed' = <<PlatformBounds(args[i].position, args[i].size)>>
    /\ UNCHANGED <<platforms, sceneMeshes, args, engineVars, gameVars>>

\* Platform.getBounds
GetBounds(i) ==
    /\ observed' = <<platforms[i].bounds>>
    /\ UNCHANGED <<platforms, sceneMeshes, args, engineVars, gameVars>>

\* Platform.dispose
DisposePlatform(i) ==
    /\ IF platforms[i].mesh # <<>>
       THEN /\ sceneMeshes' = sceneMeshes \ {i}
            /\ platforms' = [platforms EXCEPT ![i].mesh[1].disposed = TRUE]
       ELSE UNCHANGED <<platforms, sceneMeshes>>
    /\ UNCHANGED <<observed, args, engineVars, gameVars>>

\* The caller changes a vector it passed to the constructor
\* (position.setScalar(v), size.setScalar(v)).  The constructor copied the
\* components into new vectors, so the platform holds neither of them.
MutateArgs(i, f, v) ==
    /\ args' = [args EXCEPT ![i][f] = [k \in Axes |-> v]]
    /\ UNCHANGED <<platforms, sceneMeshes, observed, engineVars, gameVars>>

PlatformNext ==
    \/ \E i \in DOMAIN platforms : GetBounds(i)
    \/ \E i \in DOMAIN platforms : DisposePlatform(i)
    \/ \E i \in DOMAIN platforms, v \in {0 - MaxCenter, MaxCenter} :
          MutateArgs(i, "position", v)
    \/ \E i \in DOMAIN platforms, v \in {0, 2 * MaxHalfSize} :
          MutateArgs(i, "size", v)

PlatformSpec == PlatformInit /\ [][PlatformNext]_vars

\* |a|
Abs(a) == IF a >= 0 THEN a ELSE 0 - a

\* The point p lies within the bounds b, faces included.
Within(p, b) == \A k \in Axes : b.min[k] <= p[k] /\ p[k] <= b.max[k]

\* Points just inside, on and just outside the faces of every platform
ProbeCoords ==
    {0 - (MaxHalfSize + 1), 0 - (MaxHalfSize - 1), 0 - 1, 0, 1,
     MaxHalfSize - 1, MaxHalfSize + 1}

(* C20: a platform built from center c and size s has min = c - s/2 and    *)
(* max = c + s/2 on each axis, so a point p lies within the bounds exactly *)
(* when |p - c| <= s/2 on every axis; with center (0,0,0) and size (2,2,2) *)
(* the point (0.9,0.9,0.9) is contained and (1.1,0,0) is not.  Visibility  *)
(* makes no difference.                                                    *)
C20_BoundsAreCenterPlusMinusHalfSize ==
    \A i \in DOMAIN platforms :
        LET c == platforms[i].config.position
            sz == platforms[i].config.size
            b == platforms[i].bounds
        IN  /\ \A k \in Axes : /\ 2 * b.min[k] = 2 * c[k] - sz[k]
                                /\ 2 * b.max[k] = 2 * c[k] + sz[k]
            /\ \A p \in Vectors(ProbeCoords) :
                   Within(p, b) = (\A k \in Axes : 2 * Abs(p[k] - c[k]) <= sz[k])
            /\ (\A k \in Axes : c[k] = 0 /\ sz[k] = 20) =>
                   /\ Within([k \in Axes |-> 9], b)
                   /\ ~Within([k \in Axes |-> IF k = 1 THEN 11 ELSE 0], b)
            /\ observed # <<>> => observed[1] = b

\* getBounds() of an invisible platform of size (2,2,2) at the origin
\* returned the cube from (-1,-1,-1) to (1,1,1).
C20_Witness ==
    /\ Len(platforms) = 1
    /\ platforms[1].mesh = <<>>
    /\ platforms[1].config.position = [k \in Axes |-> 0]
    /\ platforms[1].config.size = [k \in Axes |-> 20]
    /\ observed = <<[min |-> [k \in Axes |-> 0 - 10], max |-> [k \in Axes |-> 10]]>>
    /\ Within([k \in Axes |-> 9], observed[1])
    /\ ~Within([k \in Axes |-> IF k = 1 THEN 11 ELSE 0], observed[1])

(* C21: a platform's bounds never change.  Every step leaves them as they  *)
(* were, getBounds() returns the bounds computed in the constructor at     *)
(* every call, after dispose() and after the caller changed the position   *)
(* and size vectors it had passed, and getBounds() writes nothing.         *)
C21_BoundsImmutable ==
    [][/\ \A i \in DOMAIN platforms :
             /\ platforms'[i].bounds = platforms[i].bounds
             /\ platforms'[i].bounds =
                    PlatformBounds(platforms[i].config.position,
                                   platforms[i].config.size)
       /\ observed' # <<>> => observed'[1] = platforms[1].bounds
       /\ observed # <<>> /\ observed' # <<>> => observed' = observed
       /\ observed' # observed => UNCHANGED <<platforms, sceneMeshes, args>>]_vars

\* The caller changed both vectors and disposed the platform; getBounds()
\* still returned the bounds of the original position and size.
C21_Witness ==
    /\ Len(platforms) = 1
    /\ platforms[1].mesh # <<>>
    /\ platforms[1].mesh[1].disposed
    /\ args[1].position # platforms[1].config.position
    /\ args[1].size # platforms[1].config.size
    /\ observed = <<PlatformBounds(platforms[1].config.position,
                                   platforms[1].config.size)>>
    /\ observed # <<PlatformBounds(args[1].position, args[1].size)>>

-----------------------------------------------------------------------------
(* Customer (Customer.ts).  Coordinates count tenths of a world unit.      *)

\* private interactionRadius: number = 2.5
InteractionRadius == 25

IngredientTypes == {"LETTUCE", "BACON"}

\* IngredientType[] of at most n entries
Lists(n) == UNION {[1..k -> IngredientTypes] : k \in 0..n}

\* CustomerOrder.ingredients
Orders == Lists(MaxOrder)

\* Math.sin(Date.now() * 0.001) * 0.05, in units of 0.05
Bobs == {0 - 1, 0, 1}

\* Where customers stand
CustomerSpots == {<<0, 0, 0>>, <<10, 0, 0>>}

\* Where the player can be: 2.4, 2.5 and 2.6 from the origin along x, 2.5
\* and just less than 2.5 from it off the axes, and far away.
PlayerSpots == {<<24, 0, 0>>, <<25, 0, 0>>, <<26, 0, 0>>, <<0, 15, 20>>,
                <<0, 14, 20>>, <<90, 0, 0>>}

\* Vector3.distanceTo, squared: dx*dx + dy*dy + dz*dz
DistanceSquared(a, b) ==
    (a[1] - b[1]) * (a[1] - b[1]) + (a[2] - b[2]) * (a[2] - b[2])
    + (a[3] - b[3]) * (a[3] - b[3])

\* new Customer(engine, position, order).  builtAt and awards are kept beside
\* the object: the position given to the constructor and the number of
\* times the game awarded points for this customer.
NewCustomer(position, order) ==
    [position |-> position, order |-> order, orderFulfilled |-> FALSE,
     bob |-> 0, inScene |-> TRUE, builtAt |-> position, awards |-> 0]

\* An interaction test that counts the rim of the zone as inside.
CheckInteractionInclusive(c, p) ==
    IF c.orderFulfilled THEN FALSE
    ELSE DistanceSquared(c.position, p) <= InteractionRadius * InteractionRadius

\* Customer.checkInteraction: distance < interactionRadius, compared on the
\* squares (both sides are non-negative).
CheckInteraction(c, p) ==
    IF c.orderFulfilled THEN FALSE
    ELSE DistanceSquared(c.position, p) < InteractionRadius * InteractionRadius

\* A validation that forgets to compare the lengths.
ValidateOrderNoLengthCheck(c, list) ==
    IF c.orderFulfilled THEN FALSE
    ELSE \A i \in 1..Len(c.order) : i \in DOMAIN list /\ list[i] = c.order[i]

\* Customer.validateOrder
ValidateOrder(c, list) ==
    IF c.orderFulfilled THEN FALSE
    ELSE IF Len(list) # Len(c.order) THEN FALSE
    ELSE \A i \in 1..Len(c.order) : list[i] = c.order[i]

\* Customer.fulfillOrder
Fulfilled(c) == [c EXCEPT !.orderFulfilled = TRUE]

\* Customer.update: the mesh bobs around the customer's position
Bobbed(c, bob) == [c EXCEPT !.bob = bob]

platformVars == <<platforms, sceneMeshes, observed, args>>

\* One customer, called from outside a game.
CustomerInit ==
    /\ Constructed([canvas |-> "canvas"], <<MaxDim, 1>>, 1)
    /\ disposedGames = NotFollowed
    /\ NoPlatform
    /\ \E pos \in CustomerSpots, order \in Orders :
          customers = <<NewCustomer(pos, order)>>
    /\ query = <<>>
    /\ player = [position |-> <<0, 0, 0>>, ingredients |-> <<>>]
    /\ keyE = FALSE
    /\ pgame = [currentCustomer |-> 0, score |-> 0]
    /\ tick = [n |-> 0, list |-> <<>>]

\* customer.checkInteraction(p)
CheckInteractionCall(i, p) ==
    /\ query' = <<[op |-> "checkInteraction", who |-> i, point |-> p,
                   list |-> <<>>, result |-> CheckInteraction(customers[i], p)]>>
    /\ UNCHANGED <<customers, player, keyE, pgame, tick, engineVars, platformVars>>

\* customer.validateOrder(list)
ValidateOrderCall(i, list) ==
    /\ query' = <<[op |-> "validateOrder", who |-> i, point |-> <<0, 0, 0>>,
                   list |-> list, result |-> ValidateOrder(customers[i], list)]>>
    /\ UNCHANGED <<customers, player, keyE, pgame, tick, engineVars, platformVars>>

\* customer.fulfillOrder()
FulfillOrder(i) ==
    /\ customers' = [customers EXCEPT ![i] = Fulfilled(@)]
    /\ UNCHANGED <<query, player, keyE, pgame, tick, engineVars, platformVars>>

\* customer.update(deltaTime)
UpdateCustomer(i, bob) ==
    /\ customers' = [customers EXCEPT ![i] = Bobbed(@, bob)]
    /\ UNCHANGED <<query, player, keyE, pgame, tick, engineVars, platformVars>>

\* customer.dispose()
DisposeCustomer(i) ==
    /\ customers' = [customers EXCEPT ![i].inScene = FALSE]
    /\ UNCHANGED <<query, player, keyE, pgame, tick, engineVars, platformVars>>

CustomerNext ==
    \/ \E i \in DOMAIN customers, p \in PlayerSpots : CheckInteractionCall(i, p)
    \/ \E i \in DOMAIN customers, list \in Lists(MaxOrder + 1) :
          ValidateOrderCall(i, list)
    \/ \E i \in DOMAIN customers : FulfillOrder(i)
    \/ \E i \in DOMAIN customers, bob \in Bobs : UpdateCustomer(i, bob)
    \/ \E i \in DOMAIN customers : DisposeCustomer(i)

CustomerSpec == CustomerInit /\ [][CustomerNext]_vars

\* The latest call from outside was made in this step and was a call of op.
Asked(op) == query' # <<>> /\ query' # query /\ query'[1].op = op

(* C22: for a customer whose order is not fulfilled, checkInteraction(p)   *)
(* is true exactly when p is less than 2.5 from the position the customer  *)
(* was constructed at (true at 2.4, false at 2.6), whatever the bobbing    *)
(* and whatever was asked before.                                          *)
C22_InRangeIffCloserThanRadius ==
    [][/\ Asked("checkInteraction") =>
             LET q == query'[1]
                 c == customers[q.who]
             IN  ~c.orderFulfilled =>
                    q.result = (DistanceSquared(c.builtAt, q.point) < 625)
       /\ \A i \in DOMAIN customers' :
             LET c == customers'[i]
                 at(d) == <<c.builtAt[1] + d, c.builtAt[2], c.builtAt[3]>>
             IN  ~c.orderFulfilled =>
                    /\ CheckInteraction(c, at(24))
                    /\ ~CheckInteraction(c, at(25))
                    /\ ~CheckInteraction(c, at(26))]_vars

\* An unfulfilled customer whose mesh has bobbed away from its position
\* found a point 2.4 away in range.
C22_Witness ==
    /\ Len(customers) = 1
    /\ query # <<>>
    /\ query[1].op = "checkInteraction"
    /\ query[1].result
    /\ DistanceSquared(customers[1].builtAt, query[1].point) = 576
    /\ ~customers[1].orderFulfilled
    /\ customers[1].bob # 0

(* C24: validateOrder(list) is true exactly when the order is not yet      *)
(* fulfilled and list is the order, entry by entry; a list of another      *)
(* length, with another ingredient or in another sequence gives false; the *)
(* call changes nothing.                                                   *)
C24_ValidIffSameSequence ==
    [][Asked("validateOrder") =>
          LET q == query'[1]
              c == customers[q.who]
          IN  /\ q.result = (~c.orderFulfilled /\ q.list = c.order)
              /\ UNCHANGED <<customers, player, keyE, pgame, tick>>]_vars

\* An unfulfilled customer with a two-ingredient order accepted exactly that
\* list.
C24_Witness ==
    /\ Len(customers) = 1
    /\ query # <<>>
    /\ query[1].op = "validateOrder"
    /\ query[1].result
    /\ Len(query[1].list) = 2
    /\ query[1].list[1] # query[1].list[2]
    /\ query[1].list = customers[1].order
    /\ ~customers[1].orderFulfilled

\* The same customer refused the two ingredients in the other sequence.
C24_WitnessSwapped ==
    /\ Len(customers) = 1
    /\ query # <<>>
    /\ query[1].op = "validateOrder"
    /\ ~query[1].result
    /\ Len(query[1].list) = 2
    /\ Len(customers[1].order) = 2
    /\ query[1].list[1] = customers[1].order[2]
    /\ query[1].list[2] = customers[1].order[1]
    /\ query[1].list # customers[1].order
    /\ ~customers[1].orderFulfilled

-----------------------------------------------------------------------------
(* PlatformerGame (Customer.ts): the customers, the delivery and the score. *)
(* The player and the ingredient pickups are collaborators: an update may   *)
(* find the player anywhere and may add an ingredient to what it carries.   *)

\* const pointsEarned = 10 + (playerIngredients.length * 5)
BasePoints == 10

PointsPerIngredient == 5

\* const pointsLost = 5
PointsLost == 5

\* Points that do not depend on the size of the order.
PointsEarnedFlat(list) == BasePoints

\* const pointsEarned = 10 + (playerIngredients.length * 5)
PointsEarned(list) == BasePoints + Len(list) * PointsPerIngredient

\* A search that goes through the whole list and keeps the last match.
NearCustomerLast(cs, p) ==
    LET hits == {i \in DOMAIN cs :
                    ~cs[i].orderFulfilled /\ CheckInteraction(cs[i], p)}
    IN  IF hits = {} THEN 0 ELSE CHOOSE i \in hits : \A j \in hits : j <= i

\* for (const customer of this.customers)
\*     if (!customer.isOrderFulfilled() && customer.checkInteraction(playerPos)) { ...; break }
NearCustomer(cs, p) ==
    LET hits == {i \in DOMAIN cs :
                    ~cs[i].orderFulfilled /\ CheckInteraction(cs[i], p)}
    IN  IF hits = {} THEN 0 ELSE CHOOSE i \in hits : \A j \in hits : i <= j

\* A fulfilment that leaves the flag as it was.
FulfillForgets(c) == [c EXCEPT !.awards = @ + 1]

\* nearCustomer.fulfillOrder(), followed by the award of the points
Fulfill(c) == [Fulfilled(c) EXCEPT !.awards = @ + 1]

\* this.player.getIngredientList(): the types the player carries, bottom first
GetIngredientList(p) == p.ingredients

\* this.player.resetIngredients(): the player carries nothing
ResetIngredients(p) == [p EXCEPT !.ingredients = <<>>]

\* this.player.addIngredient(...) for each pickup touched in this update
AddIngredients(p, picked) == [p EXCEPT !.ingredients = @ \o picked]

\* this.player.update(deltaTime, this.platforms): the player is at pos
MovePlayer(p, pos) == [p EXCEPT !.position = pos]

\* Where the second customer stands: within reach of the first one's zone,
\* or away from it.
SecondSpots == {<<10, 0, 0>>, <<50, 0, 0>>}

\* What the second customer wants
SecondOrder == <<"BACON">>

\* Where an update can find the player: within reach of the first customer
\* only or of both, of the second only, of none.
GameSpots == {<<24, 0, 0>>, <<26, 0, 0>>, <<90, 0, 0>>}

\* What an update can add to the player's stack
Pickups == {<<>>} \cup {<<t>> : t \in IngredientTypes}

\* new PlatformerGame(engine), with two customers
GameInit ==
    /\ Constructed([canvas |-> "canvas"], <<MaxDim, 1>>, 1)
    /\ disposedGames = NotFollowed
    /\ NoPlatform
    /\ \E spot \in SecondSpots, order \in Orders :
          customers = <<NewCustomer(<<0, 0, 0>>, order),
                        NewCustomer(spot, SecondOrder)>>
    /\ query = <<>>
    /\ player = [position |-> <<0, 0, 0>>, ingredients |-> <<>>]
    /\ keyE = FALSE
    /\ pgame = [currentCustomer |-> 0, score |-> 0]
    /\ tick = [n |-> 0, list |-> <<>>]

\* PlatformerGame.update: the player has moved to pos and picked up picked;
\* the customers bob by bob.
PlatformerUpdate(pos, picked, bob) ==
    /\ tick.n < MaxUpdates
    /\ Len(player.ingredients) + Len(picked) <= MaxOrder + 1
    /\ LET moved == AddIngredients(MovePlayer(player, pos), picked)
           list == GetIngredientList(moved)
           near == NearCustomer(customers, moved.position)
           deliver == near # 0 /\ keyE
           ok == deliver /\ ValidateOrder(customers[near], list)
       IN  /\ customers' =
                 [i \in DOMAIN customers |->
                     Bobbed(IF ok /\ i = near THEN Fulfill(customers[i])
                                              ELSE customers[i], bob)]
           /\ player' = IF ok THEN ResetIngredients(moved) ELSE moved
           /\ pgame' = [currentCustomer |-> IF near = 0 \/ ok THEN 0 ELSE near,
                        score |-> pgame.score
                                  + (IF ok THEN PointsEarned(list)
                                     ELSE IF deliver THEN 0 - PointsLost
                                     ELSE 0)]
           /\ tick' = [n |-> tick.n + 1, list |-> list]
    /\ UNCHANGED <<query, keyE, engineVars, platformVars>>

\* The player presses the deliver key.
KeyDown ==
    /\ ~keyE
    /\ keyE' = TRUE
    /\ UNCHANGED <<customers, query, player, pgame, tick, engineVars, platformVars>>

\* The player releases the deliver key.
KeyUp ==
    /\ keyE
    /\ keyE' = FALSE
    /\ UNCHANGED <<customers, query, player, pgame, tick, engineVars, platformVars>>

GameNext ==
    \/ \E pos \in GameSpots, picked \in Pickups, bob \in Bobs :
          PlatformerUpdate(pos, picked, bob)
    \/ KeyDown
    \/ KeyUp

GameSpec == GameInit /\ [][GameNext]_vars

\* A step in which PlatformerGame.update ran
Updated == tick'.n # tick.n

\* The unfulfilled customers standing within the radius of p
InReach(cs, p) ==
    {i \in DOMAIN cs :
        /\ ~cs[i].orderFulfilled
        /\ DistanceSquared(cs[i].builtAt, p) < InteractionRadius * InteractionRadius}

\* The customers fulfilled by the step
Served == {i \in DOMAIN customers :
              ~customers[i].orderFulfilled /\ customers'[i].orderFulfilled}

(* C23: in an update with the deliver key pressed while the player is in    *)
(* range of an unfulfilled customer, a list equal to that customer's order  *)
(* fulfils the customer, empties the player's stack, clears currentCustomer *)
(* and adds 10 + 5 per delivered ingredient to the score; any other list    *)
(* takes 5 off the score and leaves fulfilment and the stack as they were.  *)
(* Nothing else changes the score.                                          *)
C23_DeliveryScoring ==
    [][LET pos == player'.position
           list == tick'.list
           reach == InReach(customers, pos)
       IN  IF Updated /\ keyE /\ reach # {}
           THEN LET n == CHOOSE i \in reach : \A j \in reach : i <= j
                IN  IF list = customers[n].order
                    THEN /\ Served = {n}
                         /\ player'.ingredients = <<>>
                         /\ pgame'.currentCustomer = 0
                         /\ pgame'.score = pgame.score + 10 + 5 * Len(list)
                    ELSE /\ Served = {}
                         /\ player'.ingredients = list
                         /\ pgame'.score = pgame.score - 5
           ELSE /\ pgame'.score = pgame.score
                /\ Served = {}]_vars

\* Two ingredients were delivered to the first customer after a refused
\* delivery: the score is -5 + 10 + 5 * 2.
C23_Witness ==
    /\ customers[1].orderFulfilled
    /\ Len(customers[1].order) = 2
    /\ tick.list = customers[1].order
    /\ ~customers[2].orderFulfilled
    /\ player.ingredients = <<>>
    /\ pgame = [currentCustomer |-> 0, score |-> 15]

(* C25: a fulfilled customer stays fulfilled, answers false to every        *)
(* checkInteraction and validateOrder from then on, and over any sequence   *)
(* of updates is fulfilled, and paid for, at most once.                     *)
C25_FulfilmentPermanentOneShot ==
    [][\A i \in DOMAIN customers :
          /\ customers[i].orderFulfilled => customers'[i].orderFulfilled
          /\ customers'[i].awards <= 1
          /\ customers'[i].awards = 1 <=> customers'[i].orderFulfilled
          /\ customers[i].orderFulfilled /\ Updated =>
                pgame'.score - pgame.score
                    \in {0, 0 - PointsLost}
                         \cup {PointsEarned(customers[j].order) : j \in Served \ {i}}
          /\ customers'[i].orderFulfilled =>
                /\ \A p \in PlayerSpots \cup GameSpots : ~CheckInteraction(customers'[i], p)
                /\ \A list \in Lists(MaxOrder + 1) : ~ValidateOrder(customers'[i], list)]_vars

\* The first customer is fulfilled and paid for once; the latest update
\* offered it its order again, key pressed and within its radius, and left
\* the stack and the score alone.
C25_Witness ==
    /\ customers[1].orderFulfilled
    /\ customers[1].awards = 1
    /\ customers[2].position = <<50, 0, 0>>
    /\ keyE
    /\ player.position = <<24, 0, 0>>
    /\ tick.list = customers[1].order
    /\ player.ingredients = tick.list
    /\ Len(tick.list) = 1
    /\ pgame.score = 15

(* C29: at the end of every update currentCustomer is null or the first, in *)
(* list order, of the unfulfilled customers within range of the player's    *)
(* position in that update; it is null when there is none and right after a *)
(* successful delivery. Only update writes it.                              *)
C29_CurrentCustomerIsNearest ==
    [][IF Updated
       THEN LET reach == InReach(customers', player'.position)
                cur == pgame'.currentCustomer
            IN  /\ cur # 0 => cur \in reach /\ \A j \in reach : cur <= j
                /\ InReach(customers, player'.position) = {} => cur = 0
                /\ Served # {} => cur = 0
       ELSE pgame'.currentCustomer = pgame.currentCustomer]_vars

\* Both customers are unfulfilled and within range: the first is current.
C29_Witness ==
    /\ tick.n > 0
    /\ customers[2].position = <<10, 0, 0>>
    /\ player.position = <<24, 0, 0>>
    /\ ~customers[1].orderFulfilled
    /\ ~customers[2].orderFulfilled
    /\ pgame.currentCustomer = 1

\* A delivery to the first customer left the second, still in range, to the
\* next update, which made it current.
C29_WitnessAfterDelivery ==
    /\ customers[1].orderFulfilled
    /\ ~customers[2].orderFulfilled
    /\ player.position = <<24, 0, 0>>
    /\ pgame.currentCustomer = 2

-----------------------------------------------------------------------------
(* The lifecycle of games: run, stop and dispose in any order, from outside *)
(* a tick and from inside game.update, with the disposed games remembered.  *)

LifecycleInit ==
    /\ \E cfg \in LoopConfigs : Constructed(cfg, <<MaxDim, 1>>, 1)
    /\ disposedGames = {}
    /\ NoPlatform
    /\ NoGame

LifecycleNext ==
    \/ \E g \in Games : RunGame(g)
    \/ StopGame
    \/ DisposeEngine
    \/ \E t \in Times : \E in \in InputsAt(t) : Callback(t, in)

LifecycleSpec == LifecycleInit /\ [][LifecycleNext]_vars

(* C26: between handlers, at most one animation-frame callback is pending,  *)
(* and one is pending exactly when a game is active: animationId is         *)
(* non-null iff game is non-null, and it is the handle of that callback.    *)
C26_OneCallbackIffGame ==
    /\ animationId # 0 <=> game # Null
    /\ pending = IF game # Null THEN {animationId} ELSE {}

\* A game replaced the running one from inside its update: one callback is
\* pending, for the second session.
C26_Witness ==
    /\ handler = "animate"
    /\ Has1(trace, "game.dispose")
    /\ game # Null
    /\ gameSess = 2
    /\ pending = {animationId}

\* The engine was disposed while a game ran: nothing is pending.
C26_WitnessDisposed ==
    /\ handler = "dispose"
    /\ Has1(trace, "game.dispose")
    /\ game = Null
    /\ pending = {}

(* C27: a game instance never receives update() after the engine has        *)
(* invoked its dispose(), whatever games are passed to run(), the same      *)
(* instance twice included; and the engine invokes dispose() on a game      *)
(* before it drops or replaces its reference to it.                         *)
C27_NoUpdateAfterDispose ==
    [][/\ \A i \in DOMAIN trace' :
             trace'[i].op = "update" =>
                 /\ trace'[i].game \notin disposedGames
                 /\ ~\E j \in 1..(i - 1) : /\ trace'[j].op = "game.dispose"
                                            /\ trace'[j].game = trace'[i].game
       /\ gameSess # 0 /\ gameSess' # gameSess =>
             \E j \in DOMAIN trace' : /\ trace'[j].op = "game.dispose"
                                      /\ trace'[j].game = game]_vars

(* C28: within a session, no update runs at a timestamp below one frame     *)
(* interval, and two updates never fall into the same window                *)
(* [k * I, (k + 1) * I): each update is in a later window than the one      *)
(* before it, so there are at most floor(T / I) of them up to T.            *)
C28_OneTickPerWindow ==
    [][handler' = "animate" /\ Has1(trace', "update") =>
          /\ now' >= frameInterval
          /\ tickedAt # -1 =>
                now' \div frameInterval > tickedAt \div frameInterval]_vars

\* Two updates of one session less than an interval apart, the first late in
\* its window and the second early in the next.
C28_Witness ==
    /\ handler = "animate"
    /\ tickedAt = now
    /\ \E i \in DOMAIN trace :
          /\ trace[i].op = "update"
          /\ trace[i].delta > 0
          /\ trace[i].delta < frameInterval

=============================================================================
